---------------------------- MODULE Spec2Model ----------------------------
(***************************************************************************)
(* susbot-backend: the source normalizer (lib.rs, structs.rs), the rule    *)
(* based risk engine (analysis.rs) and the analyze_address request         *)
(* pipeline (lib.rs).                                                      *)
(*                                                                         *)
(* Texts are TLA+ strings; a character is a string of length one.  The     *)
(* regular expressions of the rule catalogue are matched character by     *)
(* character by the operators below.                                       *)
(***************************************************************************)
EXTENDS Integers, Sequences, FiniteSets, TLC

VARIABLES
    input,         \* the source text the analysis API is called on
    call,          \* the call of the analysis API: function, arguments, result
    payload,       \* the payload the normalizer is called on
    norm,          \* the outcomes of the calls of the normalizer, in call order
    pc,            \* of each request: idle, fetching, summarizing or done
    req_address,   \* of each request: the address it was called with
    req_info,      \* of each request: contract_info, result[0] of Etherscan's reply
    req_analysis,  \* of each request: the text scanned and its AnalysisResult
    req_summary,   \* of each request: what get_ai_summary returned
    req_result,    \* of each request: the ScanResult it returned
    req_outcalls,  \* of each request: the HTTP outcalls it made, in order
    req_replies    \* of each request: the outcomes of its outcalls, in order

scan_vars == <<input, call>>
norm_vars == <<payload, norm>>
req_vars  == <<pc, req_address, req_info, req_analysis, req_summary, req_result,
              req_outcalls, req_replies>>

vars == <<input, call, payload, norm,
          pc, req_address, req_info, req_analysis, req_summary, req_result,
          req_outcalls, req_replies>>

---------------------------------------------------------------------------
(* Characters                                                              *)

Char(s, i) == SubSeq(s, i, i)

Digit == {"0", "1", "2", "3", "4", "5", "6", "7", "8", "9"}

Lower == {"a", "b", "c", "d", "e", "f", "g", "h", "i", "j", "k", "l", "m",
          "n", "o", "p", "q", "r", "s", "t", "u", "v", "w", "x", "y", "z"}

Upper == {"A", "B", "C", "D", "E", "F", "G", "H", "I", "J", "K", "L", "M",
          "N", "O", "P", "Q", "R", "S", "T", "U", "V", "W", "X", "Y", "Z"}

\* \w of the regex crate: letters, digits and the underscore
WordChar == Lower \cup Upper \cup Digit \cup {"_"}

\* \s of the regex crate
WhiteSpace == {" ", "\t", "\n", "\r", "\f"}

---------------------------------------------------------------------------
(* Regular expressions (regex crate, Regex::is_match).  A pattern is a     *)
(* sequence of alternatives; an alternative is a sequence of items.  A     *)
(* character class is [neg, set]: the characters of set, or all others.    *)

Class(set)    == [neg |-> FALSE, set |-> set]
NotClass(set) == [neg |-> TRUE, set |-> set]

Lit(s)  == [k |-> "lit",  s |-> s,  c |-> Class({})]
One(c)  == [k |-> "one",  s |-> "", c |-> c]
Star(c) == [k |-> "star", s |-> "", c |-> c]
Plus(c) == [k |-> "plus", s |-> "", c |-> c]
WB      == [k |-> "wb",   s |-> "", c |-> Class({})]

InClass(c, ch) == (ch \in c.set) # c.neg

\* \b: exactly one of the characters before and after position p is a word
\* character (p characters of text lie before the position)
IsWordBoundary(text, p) ==
    LET before == p >= 1 /\ Char(text, p) \in WordChar
        after  == p < Len(text) /\ Char(text, p + 1) \in WordChar
    IN  before # after

\* the furthest position reachable from p through characters of class c
ClassRun(c, text, p) ==
    LET stop == CHOOSE q \in (p + 1)..(Len(text) + 1) :
                    /\ q = Len(text) + 1 \/ ~InClass(c, Char(text, q))
                    /\ \A k \in (p + 1)..(q - 1) : InClass(c, Char(text, k))
    IN  stop - 1

\* the positions an item can end at when it starts at a position of S
Step(item, S, text) ==
    CASE item.k = "lit" ->
           {p + Len(item.s) : p \in {q \in S :
                /\ q + Len(item.s) <= Len(text)
                /\ SubSeq(text, q + 1, q + Len(item.s)) = item.s}}
      [] item.k = "one" ->
           {p + 1 : p \in {q \in S :
                q < Len(text) /\ InClass(item.c, Char(text, q + 1))}}
      [] item.k = "star" ->
           UNION {p .. ClassRun(item.c, text, p) : p \in S}
      [] item.k = "plus" ->
           UNION {(p + 1) .. ClassRun(item.c, text, p) : p \in S}
      [] item.k = "wb" ->
           {p \in S : IsWordBoundary(text, p)}

RECURSIVE MatchItems(_, _, _, _)
MatchItems(items, i, S, text) ==
    IF S = {} THEN {}
    ELSE IF i > Len(items) THEN S
    ELSE MatchItems(items, i + 1, Step(items[i], S, text), text)

\* Regex::is_match: the pattern matches somewhere in the text
is_match(pattern, text) ==
    \E a \in 1..Len(pattern) :
        MatchItems(pattern[a], 1, 0..Len(text), text) # {}

\* str::contains
Contains(text, needle) ==
    \E p \in 0..(Len(text) - Len(needle)) :
        SubSeq(text, p + 1, p + Len(needle)) = needle

---------------------------------------------------------------------------
(* analysis.rs                                                             *)

\* lib.rs: const UNVERIFIED_CONTRACT_NEUTRAL_SCORE: u8
UNVERIFIED_CONTRACT_NEUTRAL_SCORE == 50

\* enum RiskLevel, in declaration order
RiskLevel == <<"Critical", "High", "Medium", "Low", "Info">>

\* const CHECKS: [AnalysisCheck; 16]
CHECKS ==
    <<
      \* pattern: selfdestruct\s*\(|suicide\s*\(
      [name |-> "Self-Destruct",
       description |-> "The contract can be destroyed by its owner, removing it from the blockchain and sending all its funds to a designated address.",
       pattern |-> << <<Lit("selfdestruct"), Star(Class(WhiteSpace)), Lit("(")>>,
                      <<Lit("suicide"), Star(Class(WhiteSpace)), Lit("(")>> >>,
       risk_level |-> "Critical",
       score_impact |-> 25],
      \* pattern: \.delegatecall\b
      [name |-> "Delegate Call",
       description |-> "Unsafe use of 'delegatecall' can lead to unexpected code execution and security vulnerabilities.",
       pattern |-> << <<Lit(".delegatecall"), WB>> >>,
       risk_level |-> "Critical",
       score_impact |-> 40],
      \* pattern: \btx\.origin\b
      [name |-> "tx.origin Authentication",
       description |-> "Using 'tx.origin' for authentication is unsafe and can make the contract vulnerable to phishing attacks.",
       pattern |-> << <<WB, Lit("tx.origin"), WB>> >>,
       risk_level |-> "High",
       score_impact |-> 30],
      \* pattern: \bblock\.timestamp\b
      [name |-> "Block Timestamp Dependency",
       description |-> "The contract's logic depends on 'block.timestamp', which can be manipulated by miners.",
       pattern |-> << <<WB, Lit("block.timestamp"), WB>> >>,
       risk_level |-> "Medium",
       score_impact |-> 15],
      \* pattern: \bassembly\b
      [name |-> "Inline Assembly",
       description |-> "Use of inline assembly ('assembly') bypasses compiler safety checks and requires careful review.",
       pattern |-> << <<WB, Lit("assembly"), WB>> >>,
       risk_level |-> "Medium",
       score_impact |-> 5],
      \* pattern: \.call\b
      [name |-> "Low-level Call",
       description |-> "Low-level '.call' is used. If the return value is not checked, it can lead to failed external calls being missed.",
       pattern |-> << <<Lit(".call"), WB>> >>,
       risk_level |-> "Low",
       score_impact |-> 5],
      \* pattern: pragma\s+solidity\s*[\^<>=]*\s*0\.[0-7]\.
      [name |-> "Outdated Compiler Version",
       description |-> "An old Solidity version is used (pragma < 0.8.0), which lacks built-in overflow/underflow checks.",
       pattern |-> << <<Lit("pragma"), Plus(Class(WhiteSpace)), Lit("solidity"),
                        Star(Class(WhiteSpace)), Star(Class({"^", "<", ">", "="})),
                        Star(Class(WhiteSpace)), Lit("0."),
                        One(Class({"0", "1", "2", "3", "4", "5", "6", "7"})), Lit(".")>> >>,
       risk_level |-> "Low",
       score_impact |-> 5],
      \* pattern: \.transfer\(
      [name |-> "Unprotected Ether Withdrawal",
       description |-> "A 'transfer' function is used. If protections like 'require(msg.sender == owner)' are missing, it could be a vulnerability.",
       pattern |-> << <<Lit(".transfer(")>> >>,
       risk_level |-> "High",
       score_impact |-> 25],
      \* pattern: \bmint\b
      [name |-> "Mint Function",
       description |-> "The contract contains a 'mint' function, indicating it can create new tokens.",
       pattern |-> << <<WB, Lit("mint"), WB>> >>,
       risk_level |-> "Info",
       score_impact |-> 0],
      \* pattern: function\s+mint\s*\([^)]*\)
      [name |-> "Infinite Minting",
       description |-> "The contract allows unlimited token minting without proper restrictions, potentially leading to hyperinflation.",
       pattern |-> << <<Lit("function"), Plus(Class(WhiteSpace)), Lit("mint"),
                        Star(Class(WhiteSpace)), Lit("("), Star(NotClass({")"})), Lit(")")>> >>,
       risk_level |-> "Critical",
       score_impact |-> 25],
      \* pattern: blacklist|blacklisted|frozen|freeze
      [name |-> "Owner Can Blacklist Users",
       description |-> "The contract owner can blacklist or freeze user addresses, giving centralized control over user funds.",
       pattern |-> << <<Lit("blacklist")>>, <<Lit("blacklisted")>>,
                      <<Lit("frozen")>>, <<Lit("freeze")>> >>,
       risk_level |-> "High",
       score_impact |-> 15],
      \* pattern: Pausable|_pause\s*\(|_unpause\s*\(|whenNotPaused|whenPaused
      [name |-> "Pausable Contract",
       description |-> "The contract can be paused by the owner, potentially stopping all transfers and functionality.",
       pattern |-> << <<Lit("Pausable")>>,
                      <<Lit("_pause"), Star(Class(WhiteSpace)), Lit("(")>>,
                      <<Lit("_unpause"), Star(Class(WhiteSpace)), Lit("(")>>,
                      <<Lit("whenNotPaused")>>, <<Lit("whenPaused")>> >>,
       risk_level |-> "Medium",
       score_impact |-> 10],
      \* pattern: function\s+transfer\s*\([^)]*\)
      [name |-> "Missing Event Emits",
       description |-> "Critical functions lack event emissions, reducing transparency and making it harder to track important actions.",
       pattern |-> << <<Lit("function"), Plus(Class(WhiteSpace)), Lit("transfer"),
                        Star(Class(WhiteSpace)), Lit("("), Star(NotClass({")"})), Lit(")")>> >>,
       risk_level |-> "Low",
       score_impact |-> 3],
      \* pattern: \.gas\s*\(\s*\d+\s*\)
      [name |-> "Hardcoded Gas Limits",
       description |-> "The contract uses hardcoded gas values which may cause issues if network conditions change.",
       pattern |-> << <<Lit(".gas"), Star(Class(WhiteSpace)), Lit("("),
                        Star(Class(WhiteSpace)), Plus(Class(Digit)),
                        Star(Class(WhiteSpace)), Lit(")")>> >>,
       risk_level |-> "Low",
       score_impact |-> 2],
      \* pattern: \.call\s*\([^)]*\)\s*;
      [name |-> "Unchecked Call Return",
       description |-> "Low-level calls are made without checking their return values, potentially missing failed calls.",
       pattern |-> << <<Lit(".call"), Star(Class(WhiteSpace)), Lit("("),
                        Star(NotClass({")"})), Lit(")"), Star(Class(WhiteSpace)), Lit(";")>> >>,
       risk_level |-> "Medium",
       score_impact |-> 10],
      \* pattern: \.call\s*\([^)]*\)
      [name |-> "Reentrancy Vulnerability",
       description |-> "The contract may be vulnerable to reentrancy attacks due to external calls before state changes.",
       pattern |-> << <<Lit(".call"), Star(Class(WhiteSpace)), Lit("("),
                        Star(NotClass({")"})), Lit(")")>> >>,
       risk_level |-> "Critical",
       score_impact |-> 30]
    >>


\* struct FoundRisk, as examine_checks builds it from a check
FoundRisk(check) ==
    [check_name |-> check.name,
     description |-> check.description,
     risk_level |-> check.risk_level]

\* FoundRisk::to_string: "[{}] {}: {}"
FoundRisk_to_string(risk) ==
    "[" \o risk.risk_level \o "] " \o risk.check_name \o ": " \o risk.description

\* `score as u8` of an i32: the low eight bits
as_u8(x) == x % 256

\* the loop of examine_checks from check i on; score and risks are the
\* values of the two &mut parameters
RECURSIVE examine_from(_, _, _, _)
examine_from(i, source_code, score, risks) ==
    IF i > Len(CHECKS) THEN [score |-> score, risks |-> risks]
    ELSE IF is_match(CHECKS[i].pattern, source_code)
         THEN examine_from(i + 1, source_code,
                           score - CHECKS[i].score_impact,
                           Append(risks, FoundRisk(CHECKS[i])))
         ELSE examine_from(i + 1, source_code, score, risks)

\* mutant: the loop stops at the first check that matches
examine_checks_first_only(source_code, score, risks) ==
    IF \E i \in 1..Len(CHECKS) : is_match(CHECKS[i].pattern, source_code)
    THEN LET i == CHOOSE j \in 1..Len(CHECKS) :
                      /\ is_match(CHECKS[j].pattern, source_code)
                      /\ \A h \in 1..(j - 1) :
                             ~is_match(CHECKS[h].pattern, source_code)
         IN  [score |-> score - CHECKS[i].score_impact,
              risks |-> Append(risks, FoundRisk(CHECKS[i]))]
    ELSE [score |-> score, risks |-> risks]

\* the checks on a low-level call, which overlap in what they match
CallChecks == {"Low-level Call", "Unchecked Call Return", "Reentrancy Vulnerability"}

\* the loop of the mutant below; reported tells whether a check on a
\* low-level call has been reported
RECURSIVE examine_deduplicated_from(_, _, _, _, _)
examine_deduplicated_from(i, reported, source_code, score, risks) ==
    IF i > Len(CHECKS) THEN [score |-> score, risks |-> risks]
    ELSE IF /\ is_match(CHECKS[i].pattern, source_code)
            /\ ~(reported /\ CHECKS[i].name \in CallChecks)
         THEN examine_deduplicated_from(i + 1,
                           reported \/ CHECKS[i].name \in CallChecks,
                           source_code,
                           score - CHECKS[i].score_impact,
                           Append(risks, FoundRisk(CHECKS[i])))
         ELSE examine_deduplicated_from(i + 1, reported, source_code, score, risks)

\* mutant: overlapping findings are deduplicated, one low-level call is
\* reported by the first of its checks only
examine_checks_deduplicated(source_code, score, risks) ==
    examine_deduplicated_from(1, FALSE, source_code, score, risks)

examine_checks(source_code, score, risks) ==
    examine_from(1, source_code, score, risks)

\* mutant: the score is not clamped
prevent_negative_scores_unclamped(score) == score

prevent_negative_scores(score) == IF score < 0 THEN 0 ELSE score

\* mutant: ERC721 is looked for before ERC20
determine_contract_type_nft_first(source_code) ==
    IF Contains(source_code, "ERC721") \/ Contains(source_code, "IERC721")
    THEN "NFT (ERC721)"
    ELSE IF Contains(source_code, "ERC20") \/ Contains(source_code, "IERC20")
    THEN "ERC20 Token"
    ELSE IF Contains(source_code, "ERC1155") \/ Contains(source_code, "IERC1155")
    THEN "Multi-Token (ERC1155)"
    ELSE IF Contains(source_code, "Ownable")
    THEN "Ownable Contract"
    ELSE IF Contains(source_code, "contract")
    THEN "Smart Contract"
    ELSE "Unknown"

determine_contract_type(source_code) ==
    IF Contains(source_code, "ERC20") \/ Contains(source_code, "IERC20")
    THEN "ERC20 Token"
    ELSE IF Contains(source_code, "ERC721") \/ Contains(source_code, "IERC721")
    THEN "NFT (ERC721)"
    ELSE IF Contains(source_code, "ERC1155") \/ Contains(source_code, "IERC1155")
    THEN "Multi-Token (ERC1155)"
    ELSE IF Contains(source_code, "Ownable")
    THEN "Ownable Contract"
    ELSE IF Contains(source_code, "contract")
    THEN "Smart Contract"
    ELSE "Unknown"

analyze_source_code_with_verification(source_code, verified) ==
    LET examined == examine_checks(source_code, 100, <<>>)
        score    == prevent_negative_scores(examined.score)
    IN  [score |-> as_u8(score),
         risks |-> examined.risks,
         contract_traits |->
             [verified |-> verified,
              good_distribution |-> TRUE,
              contract_type |-> determine_contract_type(source_code)]]

\* mutant: the empty text is given the neutral score of the unverified path
analyze_source_code_neutral_when_empty(source_code) ==
    LET examined == examine_checks(source_code, 100, <<>>)
        score    == prevent_negative_scores(examined.score)
    IN  [score |-> IF source_code = ""
                   THEN UNVERIFIED_CONTRACT_NEUTRAL_SCORE
                   ELSE as_u8(score),
         risks |-> examined.risks,
         contract_traits |->
             [verified |-> TRUE,
              good_distribution |-> TRUE,
              contract_type |-> determine_contract_type(source_code)]]

analyze_source_code(source_code) ==
    LET examined == examine_checks(source_code, 100, <<>>)
        score    == prevent_negative_scores(examined.score)
    IN  [score |-> as_u8(score),
         risks |-> examined.risks,
         contract_traits |->
             [verified |-> TRUE,
              good_distribution |-> TRUE,
              contract_type |-> determine_contract_type(source_code)]]

---------------------------------------------------------------------------
(* JSON (serde_json::from_str), as ContractSources::from_string uses it.   *)
(* A parse reads a value at position p of the text and yields the position *)
(* after it.  A value is [t, s, m]: t its kind, s the text of a string, m  *)
(* the members <<key, value>> of an object or the elements of an array.    *)
(* \uXXXX and \b escapes lie outside the alphabet of the model.            *)

JsonWhiteSpace == {" ", "\n", "\t", "\r"}

\* the characters below U+0020, which a JSON string cannot hold unescaped
ControlChar == {"\n", "\t", "\r", "\f"}

JsonFail == [ok |-> FALSE, pos |-> 0, v |-> [t |-> "none", s |-> "", m |-> <<>>]]
JsonOk(p, t, s, m) == [ok |-> TRUE, pos |-> p, v |-> [t |-> t, s |-> s, m |-> m]]

RECURSIVE SkipWs(_, _)
SkipWs(s, p) ==
    IF p <= Len(s) /\ Char(s, p) \in JsonWhiteSpace THEN SkipWs(s, p + 1) ELSE p

\* the character an escape \x stands for
Unescape(x) ==
    CASE x = "n" -> "\n"
      [] x = "t" -> "\t"
      [] x = "r" -> "\r"
      [] x = "f" -> "\f"
      [] OTHER   -> x

\* the strings units[lo], ..., units[hi] put together
RECURSIVE ConcatRange(_, _, _)
ConcatRange(units, lo, hi) ==
    IF lo > hi THEN ""
    ELSE IF lo = hi THEN units[lo]
    ELSE LET mid == (lo + hi) \div 2
         IN  ConcatRange(units, lo, mid) \o ConcatRange(units, mid + 1, hi)

\* how many backslashes in a row end at position k, none counted before p
BackslashRun(s, p, k) ==
    CHOOSE n \in 0..(k - p + 1) :
        /\ n = k - p + 1 \/ Char(s, k - n) # "\\"
        /\ \A i \in 0..(n - 1) : Char(s, k - i) = "\\"

\* in a string that starts at p: the character at k follows the backslash
\* of an escape
IsEscaped(s, p, k) == BackslashRun(s, p, k - 1) % 2 = 1

\* the place of the quote that closes the string that starts at p, the first
\* quote no escape holds; Len(s) + 1 if there is none
StringEnd(s, p) ==
    CHOOSE q \in p..(Len(s) + 1) :
        /\ q = Len(s) + 1 \/ (Char(s, q) = "\"" /\ ~IsEscaped(s, p, q))
        /\ \A k \in p..(q - 1) : ~(Char(s, k) = "\"" /\ ~IsEscaped(s, p, k))

\* the string s[p..end-1] read: its text is its characters, each escape
\* replaced by the character it stands for
StringBetween(s, p, end) ==
    LET unit(k) == IF IsEscaped(s, p, k) THEN Unescape(Char(s, k))
                   ELSE IF Char(s, k) = "\\" THEN ""
                   ELSE Char(s, k)
        valid(k) == IF IsEscaped(s, p, k)
                    THEN Char(s, k) \in {"\"", "\\", "/", "n", "t", "r", "f"}
                    ELSE Char(s, k) \notin ControlChar
    IN  IF end > Len(s) THEN JsonFail
        ELSE IF \E k \in p..(end - 1) : ~valid(k) THEN JsonFail
        ELSE JsonOk(end + 1, "str",
                    ConcatRange([k \in p..(end - 1) |-> unit(k)], p, end - 1), <<>>)

\* a string whose opening quote has been read and whose text starts at p
ParseString(s, p) == StringBetween(s, p, StringEnd(s, p))

RECURSIVE SkipDigits(_, _)
SkipDigits(s, p) ==
    IF p <= Len(s) /\ Char(s, p) \in Digit THEN SkipDigits(s, p + 1) ELSE p

\* -? (0 | [1-9][0-9]*) (. [0-9]+)? ([eE] [+-]? [0-9]+)?
ParseNumber(s, p) ==
    LET at(q, set) == q <= Len(s) /\ Char(s, q) \in set
        done(d) == JsonOk(d, "num", "", <<>>)
        \* the digits of the exponent are s[e..d-1]
        exponent(e, d) == IF d = e THEN JsonFail ELSE done(d)
        \* c follows the integer part and the fraction
        after_fraction(c) ==
            IF ~at(c, {"e", "E"}) THEN done(c)
            ELSE IF at(c + 1, {"+", "-"}) THEN exponent(c + 2, SkipDigits(s, c + 2))
            ELSE exponent(c + 1, SkipDigits(s, c + 1))
        \* the digits of the fraction are s[b+1..c-1]
        fraction(b, c) == IF c = b + 1 THEN JsonFail ELSE after_fraction(c)
        \* the integer part is s[a..b-1]
        after_integer(a, b) ==
            IF b = a THEN JsonFail                      \* no digit
            ELSE IF at(b, Digit) THEN JsonFail          \* 0 then a digit
            ELSE IF at(b, {"."}) THEN fraction(b, SkipDigits(s, b + 1))
            ELSE after_fraction(b)
        integer(a) ==
            after_integer(a, IF at(a, {"0"}) THEN a + 1 ELSE SkipDigits(s, a))
    IN  integer(IF at(p, {"-"}) THEN p + 1 ELSE p)

ParseLiteral(s, p, word) ==
    IF p + Len(word) - 1 <= Len(s) /\ SubSeq(s, p, p + Len(word) - 1) = word
    THEN JsonOk(p + Len(word), word, "", <<>>)
    ELSE JsonFail

RECURSIVE ParseValue(_, _)
RECURSIVE ParseMembers(_, _, _)
RECURSIVE ParseElements(_, _, _)

\* the members of an object after its { or after a comma
ParseMembers(s, p0, acc) ==
    LET \* next follows the value of a member and the white space after it
        after_value(all, val, next) ==
            IF ~val.ok \/ next > Len(s) THEN JsonFail
            ELSE IF Char(s, next) = "," THEN ParseMembers(s, next + 1, all)
            ELSE IF Char(s, next) = "}" THEN JsonOk(next + 1, "obj", "", all)
            ELSE JsonFail
        value(key, val) ==
            after_value(Append(acc, <<key.v.s, val.v>>), val, SkipWs(s, val.pos))
        \* colon follows the key and the white space after it
        after_key(key, colon) ==
            IF ~key.ok THEN JsonFail
            ELSE IF colon > Len(s) \/ Char(s, colon) # ":" THEN JsonFail
            ELSE value(key, ParseValue(s, colon + 1))
        member(key) == after_key(key, SkipWs(s, key.pos))
        member_at(p) ==
            IF p > Len(s) \/ Char(s, p) # "\"" THEN JsonFail
            ELSE member(ParseString(s, p + 1))
    IN  member_at(SkipWs(s, p0))

\* the elements of an array after its [ or after a comma
ParseElements(s, p0, acc) ==
    LET after_value(all, val, next) ==
            IF ~val.ok \/ next > Len(s) THEN JsonFail
            ELSE IF Char(s, next) = "," THEN ParseElements(s, next + 1, all)
            ELSE IF Char(s, next) = "]" THEN JsonOk(next + 1, "arr", "", all)
            ELSE JsonFail
        element(val) == after_value(Append(acc, val.v), val, SkipWs(s, val.pos))
    IN  element(ParseValue(s, p0))

ParseValue(s, p0) ==
    LET \* q follows the bracket at p and the white space after it
        bracketed(p, q) ==
            IF Char(s, p) = "{"
            THEN IF q <= Len(s) /\ Char(s, q) = "}"
                 THEN JsonOk(q + 1, "obj", "", <<>>)
                 ELSE ParseMembers(s, p + 1, <<>>)
            ELSE IF q <= Len(s) /\ Char(s, q) = "]"
                 THEN JsonOk(q + 1, "arr", "", <<>>)
                 ELSE ParseElements(s, p + 1, <<>>)
        value_at(p, ch) ==
            CASE ch = "\"" -> ParseString(s, p + 1)
              [] ch \in {"{", "["} -> bracketed(p, SkipWs(s, p + 1))
              [] ch \in Digit \cup {"-"} -> ParseNumber(s, p)
              [] ch = "t" -> ParseLiteral(s, p, "true")
              [] ch = "f" -> ParseLiteral(s, p, "false")
              [] ch = "n" -> ParseLiteral(s, p, "null")
              [] OTHER -> JsonFail
        at(p) == IF p > Len(s) THEN JsonFail ELSE value_at(p, Char(s, p))
    IN  at(SkipWs(s, p0))

\* serde_json::from_str: one value, then nothing but white space
ParseJson(s) ==
    LET whole(r) == IF r.ok /\ SkipWs(s, r.pos) > Len(s) THEN r ELSE JsonFail
    IN  whole(ParseValue(s, 1))

---------------------------------------------------------------------------
(* structs.rs: SourceFile, ContractSources                                 *)

DeFail == [ok |-> FALSE, val |-> <<>>]
DeOk(val) == [ok |-> TRUE, val |-> val]

\* String
de_String(v) == IF v.t = "str" THEN DeOk(v.s) ELSE DeFail

\* #[derive(Deserialize)] of a struct with the fields `fields`: the JSON
\* value of its field k.  The struct is an object holding the field once
\* (members that are no field of the struct are ignored), or an array of one
\* element for each field, in order.
de_Field(v, fields, k) ==
    IF v.t = "obj"
    THEN LET at == {i \in 1..Len(v.m) : v.m[i][1] = fields[k]}
         IN  IF Cardinality(at) = 1
             THEN [ok |-> TRUE, v |-> v.m[CHOOSE i \in at : TRUE][2]]
             ELSE [ok |-> FALSE, v |-> JsonFail.v]
    ELSE IF v.t = "arr" /\ Len(v.m) = Len(fields)
    THEN [ok |-> TRUE, v |-> v.m[k]]
    ELSE [ok |-> FALSE, v |-> JsonFail.v]

\* a field that is a String
de_StringField(v, fields, k) ==
    LET read(field) == IF field.ok THEN de_String(field.v) ELSE DeFail
    IN  read(de_Field(v, fields, k))

\* struct SourceFile { content: String }
de_SourceFile(v) == de_StringField(v, <<"content">>, 1)

\* HashMap<String, SourceFile>: an object; a key read again replaces the
\* entry read before.  The value is the function file name -> content.
de_Sources(v) ==
    IF v.t # "obj" THEN DeFail
    ELSE IF \E i \in 1..Len(v.m) : ~de_SourceFile(v.m[i][2]).ok THEN DeFail
    ELSE LET names   == {v.m[i][1] : i \in 1..Len(v.m)}
             last(n) == CHOOSE i \in 1..Len(v.m) :
                           /\ v.m[i][1] = n
                           /\ \A j \in (i + 1)..Len(v.m) : v.m[j][1] # n
         IN  DeOk([n \in names |-> de_SourceFile(v.m[last(n)][2]).val])

\* struct ContractSources { sources: HashMap<String, SourceFile> }
de_ContractSources(v) ==
    LET read(field) == IF field.ok THEN de_Sources(field.v) ELSE DeFail
    IN  read(de_Field(v, <<"sources">>, 1))

\* ContractSources::from_string: Ok with the sources map, or Err
ContractSources_from_string(string) ==
    LET deserialize(r) == IF r.ok THEN de_ContractSources(r.v) ELSE DeFail
    IN  deserialize(ParseJson(string))

\* the orders HashMap::values() can visit the entries in: the order follows
\* the hashes of the keys under the map's own RandomState, which differs
\* from one HashMap to the next
IterationOrders(sources) ==
    {o \in [1..Cardinality(DOMAIN sources) -> DOMAIN sources] :
        \A i, j \in DOMAIN o : i # j => o[i] # o[j]}

RECURSIVE Join(_, _)
Join(strings, sep) ==
    IF strings = <<>> THEN ""
    ELSE IF Len(strings) = 1 THEN strings[1]
    ELSE strings[1] \o sep \o Join(Tail(strings), sep)

\* mutant: the contents are put together with nothing between them
ContractSources_to_string_unseparated(sources, order) ==
    Join([i \in DOMAIN order |-> sources[order[i]]], "")

\* mutant: the text is the content of the first file visited alone
ContractSources_to_string_first_only(sources, order) ==
    IF order = <<>> THEN "" ELSE sources[order[1]]

\* ContractSources::to_string, the entries visited in the order `order`
ContractSources_to_string(sources, order) ==
    Join([i \in DOMAIN order |-> sources[order[i]]], "\n")

---------------------------------------------------------------------------
(* lib.rs: the source normalizer                                           *)

starts_with(s, prefix) ==
    Len(prefix) <= Len(s) /\ SubSeq(s, 1, Len(prefix)) = prefix

ends_with(s, suffix) ==
    Len(suffix) <= Len(s) /\ SubSeq(s, Len(s) - Len(suffix) + 1, Len(s)) = suffix

is_double_encoded_json(etherscan_source) ==
    starts_with(etherscan_source, "{{") /\ ends_with(etherscan_source, "}}")

not_json_to_string(etherscan_source) == etherscan_source

\* &s[from..to] of a str: a panic when from > to or to > len
Slice(s, from, to) ==
    IF from <= to /\ to <= Len(s)
    THEN [panic |-> FALSE, text |-> SubSeq(s, from + 1, to)]
    ELSE [panic |-> TRUE, text |-> ""]

Returned(text) == [panic |-> FALSE, text |-> text]
Panicked == [panic |-> TRUE, text |-> ""]

\* the texts ContractSources::to_string can return for a parsed bundle
Concatenations(sources) ==
    {Returned(ContractSources_to_string(sources, o)) : o \in IterationOrders(sources)}

\* mutant: the direct parse is left out, so that a single-encoded bundle is
\* returned as it came
extract_true_source_code_without_direct_parse(etherscan_source) ==
    LET as_is == {Returned(not_json_to_string(etherscan_source))}
        from_inner(inner) ==
            IF inner.ok THEN Concatenations(inner.val) ELSE as_is
        from_slice(inner_json_str) ==
            IF inner_json_str.panic THEN {Panicked}
            ELSE from_inner(ContractSources_from_string(inner_json_str.text))
    IN  IF is_double_encoded_json(etherscan_source)
        THEN from_slice(Slice(etherscan_source, 1, Len(etherscan_source) - 1))
        ELSE as_is

\* extract_true_source_code: the set of its possible outcomes, each the
\* returned text or a panic
extract_true_source_code(etherscan_source) ==
    LET \* step 3
        as_is == {Returned(not_json_to_string(etherscan_source))}
        \* step 2, from the result of the direct parse on
        from_direct(direct) ==
            IF direct.ok THEN Concatenations(direct.val) ELSE as_is
        \* step 1, from the result of the parse of the inner text on
        from_inner(inner) ==
            IF inner.ok THEN Concatenations(inner.val)
            ELSE from_direct(ContractSources_from_string(etherscan_source))
        from_slice(inner_json_str) ==
            IF inner_json_str.panic THEN {Panicked}
            ELSE from_inner(ContractSources_from_string(inner_json_str.text))
    IN  IF is_double_encoded_json(etherscan_source)
        THEN from_slice(Slice(etherscan_source, 1, Len(etherscan_source) - 1))
        ELSE from_direct(ContractSources_from_string(etherscan_source))

---------------------------------------------------------------------------
(* structs.rs: ScanResult, EtherscanApiResponse, EtherscanApiResult        *)

ScanResult(score, summary, risks) ==
    [score |-> score, summary |-> summary, risks |-> risks]

\* ScanResult::new_error
new_error(summary, risks) == ScanResult(0, summary, risks)

\* struct EtherscanApiResult { SourceCode: String, ContractName: String }
de_EtherscanApiResult(v) ==
    LET fields == <<"SourceCode", "ContractName">>
        read(source_code, contract_name) ==
            IF source_code.ok /\ contract_name.ok
            THEN DeOk([source_code |-> source_code.val,
                       contract_name |-> contract_name.val])
            ELSE DeFail
    IN  read(de_StringField(v, fields, 1), de_StringField(v, fields, 2))

\* Vec<EtherscanApiResult>: an array of them
de_Results(v) ==
    IF v.t # "arr" THEN DeFail
    ELSE IF \E i \in 1..Len(v.m) : ~de_EtherscanApiResult(v.m[i]).ok THEN DeFail
    ELSE DeOk([i \in 1..Len(v.m) |-> de_EtherscanApiResult(v.m[i]).val])

\* struct EtherscanApiResponse { status, message: String, result: Vec<..> }
de_EtherscanApiResponse(v) ==
    LET fields == <<"status", "message", "result">>
        read_result(field) == IF field.ok THEN de_Results(field.v) ELSE DeFail
        read(status, message, result) ==
            IF status.ok /\ message.ok /\ result.ok
            THEN DeOk([status |-> status.val, message |-> message.val,
                       result |-> result.val])
            ELSE DeFail
    IN  read(de_StringField(v, fields, 1), de_StringField(v, fields, 2),
             read_result(de_Field(v, fields, 3)))

\* serde_json::from_slice::<EtherscanApiResponse>
EtherscanApiResponse_from_slice(body) ==
    LET deserialize(r) == IF r.ok THEN de_EtherscanApiResponse(r.v) ELSE DeFail
    IN  deserialize(ParseJson(body))

---------------------------------------------------------------------------
(* lib.rs: analyze_address.  A request runs in three segments, cut at its  *)
(* two awaits: up to the outcall to Etherscan, from its reply up to the     *)
(* outcall to OpenAI, and from that reply to the returned ScanResult.       *)

is_valid_ethereum_address(address) ==
    starts_with(address, "0x") /\ Len(address) = 42

is_scan_sucessful(etherscan_data) ==
    etherscan_data.status = "1" /\ etherscan_data.result # <<>>

\* the text of a serde_json error: its wording is not modelled
SerdeErrorText == "<serde_json error>"

\* the number of risks of a level
CountLevel(risks, level) ==
    Cardinality({k \in 1..Len(risks) : risks[k].risk_level = level})

\* mutant: the summary of a verified contract only tells of the fetch
create_summary_for_verified_fetch_notice(contract_info, analysis_result) ==
    "Successfully fetched source code for contract '"
      \o contract_info.contract_name \o "'."

create_summary_for_verified(contract_info, analysis_result) ==
    "Analysis of '" \o contract_info.contract_name \o "' complete. Found "
      \o ToString(CountLevel(analysis_result.risks, "Critical")) \o " critical, "
      \o ToString(CountLevel(analysis_result.risks, "High")) \o " high, "
      \o ToString(CountLevel(analysis_result.risks, "Medium")) \o " medium, "
      \o ToString(CountLevel(analysis_result.risks, "Low")) \o " low, and "
      \o ToString(CountLevel(analysis_result.risks, "Info"))
      \o " informational risks. Final Score: "
      \o ToString(analysis_result.score)

\* the summary of an unverified contract when get_ai_summary fails
unverified_summary(contract_info) ==
    "Contract '" \o contract_info.contract_name
      \o "' source code is NOT verified on Etherscan. "
      \o "Without verified source code, it's impossible to audit the contract for security vulnerabilities. "
      \o "This is a major red flag for transparency and security."

NotVerifiedRisk == "The contract source code is not verified on Etherscan."

\* a request that has returned `result`
Returns(result) == [done |-> TRUE, result |-> result]

\* a request waiting in get_ai_summary for the reply of OpenAI
AwaitsSummary(contract_info, text, analysis_result) ==
    [done |-> FALSE, contract_info |-> contract_info,
     analysis |-> [source_code |-> text, ret |-> analysis_result]]

\* a request that trapped on a panic
Traps == [done |-> TRUE, result |-> [trap |-> TRUE]]

\* process_etherscan_data up to the await of get_ai_summary: the set of the
\* ways it can go on
process_etherscan_data(etherscan_data) ==
    IF is_scan_sucessful(etherscan_data)
    THEN LET contract_info == etherscan_data.result[1]
         IN  IF contract_info.source_code = ""
             THEN {AwaitsSummary(contract_info, "",
                       analyze_source_code_with_verification("", FALSE))}
             ELSE {IF true_source_code.panic THEN Traps
                   ELSE AwaitsSummary(contract_info, true_source_code.text,
                            analyze_source_code_with_verification(
                                true_source_code.text, TRUE))
                   : true_source_code \in
                         extract_true_source_code(contract_info.source_code)}
    ELSE {Returns(new_error("Etherscan API returned an error.",
                            <<etherscan_data.message>>))}

\* mutant: the HTTP status of the reply is not looked at
process_response_any_status(response) ==
    LET parsed(etherscan_data) ==
            IF etherscan_data.ok
            THEN process_etherscan_data(etherscan_data.val)
            ELSE {Returns(new_error("Failed to parse Etherscan API response.",
                                    <<SerdeErrorText>>))}
    IN  parsed(EtherscanApiResponse_from_slice(response.body))

\* process_response, of a reply [status, body]
process_response(response) ==
    LET parsed(etherscan_data) ==
            IF etherscan_data.ok
            THEN process_etherscan_data(etherscan_data.val)
            ELSE {Returns(new_error("Failed to parse Etherscan API response.",
                                    <<SerdeErrorText>>))}
    IN  IF response.status >= 200 /\ response.status < 300
        THEN parsed(EtherscanApiResponse_from_slice(response.body))
        ELSE {Returns(new_error("HTTP request to Etherscan failed.",
                  <<"HTTP Status: " \o ToString(response.status)
                      \o ". Body: " \o response.body>>))}

\* analyze_address from the outcome of http_request on: Ok(response) or
\* Err(error)
on_etherscan_reply(reply) ==
    IF reply.ok THEN process_response(reply.response)
    ELSE {Returns(new_error("HTTP request to Etherscan failed.",
                            <<"Error: " \o reply.error>>))}

\* get_ai_summary from the outcome of http_request on.  The body of a reply
\* is [parses, choices]: whether it is an OpenAiResponse, and the content of
\* the message of each choice
get_ai_summary(reply) ==
    IF reply.ok
    THEN IF reply.response.status >= 200 /\ reply.response.status < 300
         THEN IF ~reply.response.body.parses
              THEN [ok |-> FALSE, text |-> "Failed to parse OpenAI response: " \o SerdeErrorText]
              ELSE IF reply.response.body.choices # <<>>
              THEN [ok |-> TRUE, text |-> reply.response.body.choices[1]]
              ELSE [ok |-> FALSE, text |-> "OpenAI response contained no choices."]
         ELSE [ok |-> FALSE,
               text |-> "OpenAI API returned an error. Status: "
                          \o ToString(reply.response.status) \o ", Body: "
                          \o reply.response.body.raw]
    ELSE [ok |-> FALSE, text |-> "HTTP request to OpenAI failed. Error " \o reply.error]

\* mutant: the unverified branch returns the score of its AnalysisResult
process_etherscan_data_resumed_scanner_score(contract_info, analysis_result, ai_summary) ==
    IF contract_info.source_code = ""
    THEN [score |-> analysis_result.score,
          summary |-> IF ai_summary.ok THEN ai_summary.text
                      ELSE unverified_summary(contract_info),
          risks |-> <<NotVerifiedRisk>>]
    ELSE [score |-> analysis_result.score,
          summary |-> IF ai_summary.ok THEN ai_summary.text
                      ELSE create_summary_for_verified(contract_info, analysis_result),
          risks |-> [k \in 1..Len(analysis_result.risks) |->
                        FoundRisk_to_string(analysis_result.risks[k])]]

\* process_etherscan_data from the result of get_ai_summary on
process_etherscan_data_resumed(contract_info, analysis_result, ai_summary) ==
    IF contract_info.source_code = ""
    THEN ScanResult(UNVERIFIED_CONTRACT_NEUTRAL_SCORE,
                    IF ai_summary.ok THEN ai_summary.text
                    ELSE unverified_summary(contract_info),
                    <<NotVerifiedRisk>>)
    ELSE ScanResult(analysis_result.score,
                    IF ai_summary.ok THEN ai_summary.text
                    ELSE create_summary_for_verified(contract_info, analysis_result),
                    [k \in 1..Len(analysis_result.risks) |->
                        FoundRisk_to_string(analysis_result.risks[k])])

---------------------------------------------------------------------------
(* Source texts: every concatenation of at most MaxFrags fragments.        *)

MaxFrags == 2

Fragments ==
    {"selfdestruct(x);",
     "x.call(data);",
     "function mint(uint256 x) public {}",
     "pragma solidity ^0.6.0;",
     "a.delegatecall(d); tx.origin; block.timestamp; assembly {} to.transfer(1); frozen whenPaused function transfer() x.gas(9)",
     "function mint(",
     ")",
     "\n",
     "interface IERC20",
     "ERC721",
     "ERC1155",
     "Ownable",
     "contract A {}"}

RECURSIVE TextsOf(_)
TextsOf(n) ==
    IF n = 0 THEN {""}
    ELSE LET shorter == TextsOf(n - 1)
         IN  shorter \cup {t \o f : t \in shorter, f \in Fragments}

Texts == TextsOf(MaxFrags)

---------------------------------------------------------------------------
(* The requests and the values of the variables before anything ran       *)

MaxRequests == 2

Reqs == 1..MaxRequests

NoCall == [fn |-> "none"]

NoPayload == [text |-> "", shape |-> "none", files |-> <<>>]

NoAddress  == ""
NoInfo     == [source_code |-> "", contract_name |-> "", none |-> TRUE]
NoAnalysis == [none |-> TRUE]
NoSummary  == [none |-> TRUE]
NoResult   == [none |-> TRUE]

RequestsIdle ==
    /\ pc = [r \in Reqs |-> "idle"]
    /\ req_address = [r \in Reqs |-> NoAddress]
    /\ req_info = [r \in Reqs |-> NoInfo]
    /\ req_analysis = [r \in Reqs |-> NoAnalysis]
    /\ req_summary = [r \in Reqs |-> NoSummary]
    /\ req_result = [r \in Reqs |-> NoResult]
    /\ req_outcalls = [r \in Reqs |-> <<>>]
    /\ req_replies = [r \in Reqs |-> <<>>]

---------------------------------------------------------------------------
(* The analysis API called on its own: a source text is drawn, one of the  *)
(* two public functions is called on it, and the call returns.             *)


InitScan ==
    /\ input \in Texts
    /\ call = NoCall
    /\ payload = NoPayload
    /\ norm = <<>>
    /\ RequestsIdle

Call_analyze_source_code ==
    /\ call = NoCall
    /\ call' = [fn |-> "analyze_source_code",
                source_code |-> input,
                verified |-> TRUE,
                ret |-> analyze_source_code(input)]
    /\ UNCHANGED <<input, norm_vars, req_vars>>

Call_analyze_source_code_with_verification ==
    /\ call = NoCall
    /\ \E v \in BOOLEAN :
          call' = [fn |-> "analyze_source_code_with_verification",
                   source_code |-> input,
                   verified |-> v,
                   ret |-> analyze_source_code_with_verification(input, v)]
    /\ UNCHANGED <<input, norm_vars, req_vars>>

ReturnScan ==
    /\ call # NoCall
    /\ call' = NoCall
    /\ UNCHANGED <<input, norm_vars, req_vars>>

NextScan ==
    \/ Call_analyze_source_code
    \/ Call_analyze_source_code_with_verification
    \/ ReturnScan

SpecScan == InitScan /\ [][NextScan]_vars

---------------------------------------------------------------------------
(* Payloads: flat texts, bundles of at most MaxFiles files encoded as JSON  *)
(* (single-encoded, or double-encoded in one more pair of braces), and      *)
(* malformed or unusual JSON.  A payload is [text, shape, files]: files are *)
(* the <<name, content>> pairs a bundle was encoded from, in the order the  *)
(* payload lists them.                                                      *)

MaxFiles == 2

FileNames == {"A.sol", "B.sol", "C.sol"}

FileContents ==
    {"contract A {}",
     "selfdestruct(x);",
     "emit Log(\"a\\n\");\n"}

\* the file lists of at most n files, no name twice
RECURSIVE BundlesOf(_)
BundlesOf(n) ==
    IF n = 0 THEN {<<>>}
    ELSE LET shorter == BundlesOf(n - 1)
         IN  shorter \cup
             {Append(b, <<name, content>>) :
                 b \in {x \in shorter : Len(x) = n - 1},
                 name \in FileNames, content \in FileContents}

Bundles ==
    {b \in BundlesOf(MaxFiles) : \A i, j \in 1..Len(b) : i # j => b[i][1] # b[j][1]}

\* a text written as the inside of a JSON string
JsonEscape(s) ==
    LET escaped(ch) == CASE ch = "\"" -> "\\\""
                         [] ch = "\\" -> "\\\\"
                         [] ch = "\n" -> "\\n"
                         [] ch = "\t" -> "\\t"
                         [] OTHER     -> ch
    IN  ConcatRange([k \in 1..Len(s) |-> escaped(Char(s, k))], 1, Len(s))

EncodeFile(f) ==
    "\"" \o JsonEscape(f[1]) \o "\":{\"content\":\"" \o JsonEscape(f[2]) \o "\"}"

EncodeSources(files) ==
    "{" \o Join([i \in 1..Len(files) |-> EncodeFile(files[i])], ",") \o "}"

\* a bundle as compact JSON
EncodeCompact(files) == "{\"sources\":" \o EncodeSources(files) \o "}"

\* a bundle as a compiler's standard JSON input
EncodeStandard(files) ==
    "{\"language\": \"Solidity\",\n \"sources\": " \o EncodeSources(files)
      \o ",\n \"settings\": {\"optimizer\": {\"enabled\": true, \"runs\": 200},"
      \o " \"libraries\": [], \"evmVersion\": null}}"

DoubleWrap(json) == "{" \o json \o "}"

BundlePayloads ==
    UNION {{[text |-> EncodeCompact(b), shape |-> "single", files |-> b],
            [text |-> DoubleWrap(EncodeCompact(b)), shape |-> "double", files |-> b],
            [text |-> DoubleWrap(EncodeStandard(b)), shape |-> "double", files |-> b]}
           : b \in Bundles}

EdgeTexts ==
    {"", "ABC", "{", "{{", "}}", "{}", "{{}", "{}}", "{{}}",
     "{ not json }", "{{ not json }}",
     "{\"sources\":{\"A.sol\":{}}}",
     "{\"sources\":{\"A.sol\":{\"content\":1}}}",
     "{\"sources\":{\"A.sol\":{\"content\":\"a\",}}}",
     "{\"sources\":{\"A.sol\":{\"content\":\"a\nb\"}}}",
     "{\"sources\":{\"A.sol\":{\"content\":\"a\"}}} x",
     " {\"sources\":{\"A.sol\":{\"content\":\"a\"}}}\n",
     "{\"sources\":{\"A.sol\":{\"content\":\"a\"},\"A.sol\":{\"content\":\"b\"}}}",
     "{\"sources\":{},\"sources\":{}}",
     "{{\"sources\":{\"A.sol\":{\"content\":\"a\"}}}",
     "[{\"A.sol\":[\"a\"]}]"}

FlatPayloads ==
    {[text |-> t, shape |-> "flat", files |-> <<>>] : t \in EdgeTexts \cup Fragments}

Payloads == BundlePayloads \cup FlatPayloads

---------------------------------------------------------------------------
(* The normalizer called on its own: a payload is drawn and                *)
(* extract_true_source_code is called on it up to MaxCalls times.          *)

MaxCalls == 2

InitNorm ==
    /\ payload \in Payloads
    /\ norm = <<>>
    /\ input = ""
    /\ call = NoCall
    /\ RequestsIdle

\* extract_true_source_code of the text of each payload
ExtractOutcomes ==
    [text \in {p.text : p \in Payloads} |-> extract_true_source_code(text)]

Call_extract_true_source_code ==
    /\ Len(norm) < MaxCalls
    /\ \E outcome \in ExtractOutcomes[payload.text] :
          norm' = Append(norm, outcome)
    /\ UNCHANGED <<payload, scan_vars, req_vars>>

NextNorm == Call_extract_true_source_code

SpecNorm == InitNorm /\ [][NextNorm]_vars

---------------------------------------------------------------------------
(* Requests: MaxRequests calls of analyze_address, interleaved at their    *)
(* awaits, with the replies of Etherscan and OpenAI drawn from the sets     *)
(* below.                                                                   *)

Addresses ==
    {"0xAb5801a7D398351b8bE11C439e05C5B3259aeC9B",
     "Ab5801a7D398351b8bE11C439e05C5B3259aeC9B0x",
     "invalid_address"}

\* the SourceCode and ContractName of the contracts Etherscan answers with
ContractInfos ==
    {[source_code |-> "", contract_name |-> "UnverifiedContract"],
     [source_code |-> "ABC", contract_name |-> "Name"],
     [source_code |-> "x.call(data);", contract_name |-> "Name"],
     [source_code |-> "{\"sources\":{}}", contract_name |-> "Name"],
     [source_code |->
          DoubleWrap(EncodeStandard(<< <<"A.sol", "contract A {}">>,
                                       <<"B.sol", "selfdestruct(x);">> >>)),
      contract_name |-> "A"],
     [source_code |->
          EncodeCompact(<< <<"A.sol", "function mint(">>, <<"B.sol", ")">> >>),
      contract_name |-> "Name"]}

EncodeResult(info) ==
    "{\"SourceCode\":\"" \o JsonEscape(info.source_code)
      \o "\",\"ContractName\":\"" \o JsonEscape(info.contract_name) \o "\"}"

\* an EtherscanApiResponse as JSON
EncodeApiResponse(status, message, result) ==
    "{\"status\":\"" \o JsonEscape(status) \o "\",\"message\":\""
      \o JsonEscape(message) \o "\",\"result\":["
      \o Join([i \in 1..Len(result) |-> EncodeResult(result[i])], ",") \o "]}"

HttpOk(status, body) == [ok |-> TRUE, response |-> [status |-> status, body |-> body], error |-> ""]
HttpErr(error) == [ok |-> FALSE, response |-> [status |-> 0, body |-> ""], error |-> error]

\* the outcomes of the outcall to Etherscan
EtherscanReplies ==
    {HttpOk(200, EncodeApiResponse("1", "OK", <<info>>)) : info \in ContractInfos}
    \cup
    {HttpErr("timeout"),
     HttpOk(500, "Internal Server Error"),
     HttpOk(300, EncodeApiResponse("1", "OK", <<[source_code |-> "ABC", contract_name |-> "Name"]>>)),
     HttpOk(200, "{ not json }"),
     HttpOk(200, EncodeApiResponse("0", "NOTOK: Invalid Address format", <<>>)),
     HttpOk(200, EncodeApiResponse("1", "OK", <<>>))}

OpenAiBody(parses, choices, raw) == [parses |-> parses, choices |-> choices, raw |-> raw]

\* the outcomes of the outcall to OpenAI
OpenAiReplies ==
    {HttpErr("timeout"),
     HttpOk(500, OpenAiBody(FALSE, <<>>, "Internal Server Error")),
     HttpOk(200, OpenAiBody(FALSE, <<>>, "{ not json }")),
     HttpOk(200, OpenAiBody(TRUE, <<>>, "")),
     HttpOk(200, OpenAiBody(TRUE, <<"{\"verdict\": \"safe\"}">>, "")),
     HttpOk(200, OpenAiBody(TRUE, <<"{\"verdict\": \"risky\"}", "{}">>, ""))}

\* on_etherscan_reply of each reply
EtherscanReplyOutcomes ==
    [reply \in EtherscanReplies |-> on_etherscan_reply(reply)]

Init ==
    /\ RequestsIdle
    /\ input = ""
    /\ call = NoCall
    /\ payload = NoPayload
    /\ norm = <<>>

\* analyze_address up to its first await
Start(r) ==
    /\ pc[r] = "idle"
    /\ \E a \in Addresses :
          /\ req_address' = [req_address EXCEPT ![r] = a]
          /\ IF is_valid_ethereum_address(a)
             THEN /\ req_outcalls' = [req_outcalls EXCEPT ![r] = Append(@, "etherscan")]
                  /\ pc' = [pc EXCEPT ![r] = "fetching"]
                  /\ UNCHANGED req_result
             ELSE /\ req_result' = [req_result EXCEPT ![r] =
                         new_error("Error: Invalid Ethereum address format.", <<>>)]
                  /\ pc' = [pc EXCEPT ![r] = "done"]
                  /\ UNCHANGED req_outcalls
    /\ UNCHANGED <<req_info, req_analysis, req_summary, req_replies, scan_vars, norm_vars>>

\* from the reply of Etherscan to the outcall to OpenAI, or to the return
EtherscanReply(r) ==
    /\ pc[r] = "fetching"
    /\ \E reply \in EtherscanReplies : \E next \in EtherscanReplyOutcomes[reply] :
          /\ req_replies' = [req_replies EXCEPT ![r] = Append(@, reply)]
          /\ IF next.done
             THEN /\ req_result' = [req_result EXCEPT ![r] = next.result]
                  /\ pc' = [pc EXCEPT ![r] = "done"]
                  /\ UNCHANGED <<req_info, req_analysis, req_outcalls>>
             ELSE /\ req_info' = [req_info EXCEPT ![r] = next.contract_info]
                  /\ req_analysis' = [req_analysis EXCEPT ![r] = next.analysis]
                  /\ req_outcalls' = [req_outcalls EXCEPT ![r] = Append(@, "openai")]
                  /\ pc' = [pc EXCEPT ![r] = "summarizing"]
                  /\ UNCHANGED req_result
    /\ UNCHANGED <<req_address, req_summary, scan_vars, norm_vars>>

\* from the reply of OpenAI to the return
OpenAiReply(r) ==
    /\ pc[r] = "summarizing"
    /\ \E reply \in OpenAiReplies :
          LET ai_summary == get_ai_summary(reply)
          IN  /\ req_replies' = [req_replies EXCEPT ![r] = Append(@, reply)]
              /\ req_summary' = [req_summary EXCEPT ![r] = ai_summary]
              /\ req_result' = [req_result EXCEPT ![r] =
                     process_etherscan_data_resumed(
                         req_info[r], req_analysis[r].ret, ai_summary)]
    /\ pc' = [pc EXCEPT ![r] = "done"]
    /\ UNCHANGED <<req_address, req_info, req_analysis, req_outcalls, scan_vars, norm_vars>>

Next ==
    \E r \in Reqs :
        \/ Start(r)
        \/ EtherscanReply(r)
        \/ OpenAiReply(r)

Spec == Init /\ [][Next]_vars

---------------------------------------------------------------------------
(* Claims about the scanner, the score and the classifier (SpecScan)       *)

Max(a, b) == IF a >= b THEN a ELSE b

\* the catalogue checks whose pattern occurs in the text
Matched(text) == {i \in 1..Len(CHECKS) : is_match(CHECKS[i].pattern, text)}

RECURSIVE SumImpact(_)
SumImpact(S) ==
    IF S = {} THEN 0
    ELSE LET i == CHOOSE j \in S : TRUE
         IN  CHECKS[i].score_impact + SumImpact(S \ {i})

\* the place of a check name in the catalogue
CatalogueIndex(name) == CHOOSE i \in 1..Len(CHECKS) : CHECKS[i].name = name

Scanned == call.fn # "none"

\* C1: both analysis functions return score = max(0, 100 - the sum of
\* score_impact over the set of checks that matched), a sum over a set and so
\* independent of any evaluation order; the score lies in 0..100, so the
\* cast of the i32 to u8 kept its value.
C1_ScoreIsClampedSum ==
    Scanned =>
        /\ call.ret.score = Max(0, 100 - SumImpact(Matched(call.source_code)))
        /\ call.ret.score \in 0..100

\* C1 witness: a call whose matched impacts exceed 100, clamped to 0
C1_Witness ==
    /\ Scanned
    /\ SumImpact(Matched(call.source_code)) > 100
    /\ call.ret.score = 0

\* C2: the findings are exactly the matching catalogue checks, one entry
\* each, carrying the check's name, description and severity, no name twice,
\* in catalogue order.
C2_FindingsAreMatchedChecks ==
    Scanned =>
        LET risks == call.ret.risks
            M     == Matched(call.source_code)
        IN  /\ Len(risks) = Cardinality(M)
            /\ \A i \in M : \E k \in 1..Len(risks) :
                   /\ risks[k].check_name = CHECKS[i].name
                   /\ risks[k].description = CHECKS[i].description
                   /\ risks[k].risk_level = CHECKS[i].risk_level
            /\ \A k \in 1..Len(risks) :
                   CatalogueIndex(risks[k].check_name) \in M
            /\ \A j, k \in 1..Len(risks) :
                   j < k => CatalogueIndex(risks[j].check_name)
                              < CatalogueIndex(risks[k].check_name)

\* C2 witness: a text where one pattern occurs twice and three checks match
C2_Witness ==
    /\ Scanned
    /\ call.source_code = "x.call(data);" \o "x.call(data);"
    /\ Len(call.ret.risks) = 3

\* C6: the scanner on the empty text reports no finding and score 100, which
\* is not the neutral score of the unverified request path.
C6_EmptyTextScansClean ==
    (Scanned /\ call.source_code = "") =>
        /\ call.ret.risks = <<>>
        /\ call.ret.score = 100
        /\ call.ret.score # UNVERIFIED_CONTRACT_NEUTRAL_SCORE

\* C6 witness: analyze_source_code was called on the empty text
C6_Witness ==
    /\ call.fn = "analyze_source_code"
    /\ call.source_code = ""
    /\ call.ret.risks = <<>>

\* the classifier's marker groups in priority order
MarkerGroups ==
    << [markers |-> {"ERC20", "IERC20"},     label |-> "ERC20 Token"],
       [markers |-> {"ERC721", "IERC721"},   label |-> "NFT (ERC721)"],
       [markers |-> {"ERC1155", "IERC1155"}, label |-> "Multi-Token (ERC1155)"],
       [markers |-> {"Ownable"},             label |-> "Ownable Contract"],
       [markers |-> {"contract"},            label |-> "Smart Contract"] >>

GroupOccurs(g, text) == \E m \in MarkerGroups[g].markers : Contains(text, m)

\* C9: the contract type is the label of the first marker group, in priority
\* order, with a marker occurring in the text, and "Unknown" when there is
\* none; a text containing "interface IERC20" is an "ERC20 Token" wherever
\* "ERC721" appears in it.
C9_ClassifierFirstGroupWins ==
    Scanned =>
        LET text   == call.source_code
            type   == call.ret.contract_traits.contract_type
            groups == {g \in 1..Len(MarkerGroups) : GroupOccurs(g, text)}
        IN  /\ groups = {} => type = "Unknown"
            /\ groups # {} =>
                   \E g \in groups :
                       /\ \A h \in groups : g <= h
                       /\ type = MarkerGroups[g].label
            /\ Contains(text, "interface IERC20") => type = "ERC20 Token"

\* C9 witness: "ERC721" appears before "interface IERC20"
C9_Witness ==
    /\ Scanned
    /\ call.source_code = "ERC721" \o "interface IERC20"
    /\ call.ret.contract_traits.contract_type = "ERC20 Token"

---------------------------------------------------------------------------
(* Claims about the source normalizer (SpecNorm)                           *)

\* the text begins with {{ and ends with }}
LooksDoubleEncoded(text) ==
    /\ Len(text) >= 2
    /\ SubSeq(text, 1, 2) = "{{"
    /\ SubSeq(text, Len(text) - 1, Len(text)) = "}}"

\* the text without its first and its last character
Stripped(text) == SubSeq(text, 2, Len(text) - 1)

\* ContractSources::from_string of each payload and of each payload in
\* double braces without its first and its last character
ParsedBundle ==
    [text \in {p.text : p \in Payloads}
              \cup {Stripped(p.text) : p \in {q \in Payloads : LooksDoubleEncoded(q.text)}}
        |-> ContractSources_from_string(text)]

\* C3: every call of extract_true_source_code returns a text, never a panic;
\* the text is that of the first step that succeeds: (1) when the payload
\* begins with {{ and ends with }}, the payload without one leading and one
\* trailing brace parsed as a bundle, (2) the payload itself parsed as a
\* bundle, (3) the payload unchanged.
C3_TotalFirstStepWins ==
    \A i \in 1..Len(norm) :
        /\ ~norm[i].panic
        /\ IF /\ LooksDoubleEncoded(payload.text)
              /\ ParsedBundle[Stripped(payload.text)].ok
           THEN norm[i] \in Concatenations(ParsedBundle[Stripped(payload.text)].val)
           ELSE IF ParsedBundle[payload.text].ok
           THEN norm[i] \in Concatenations(ParsedBundle[payload.text].val)
           ELSE norm[i].text = payload.text

\* C3 witness: a payload in double braces that is no bundle either way came
\* back unchanged
C3_Witness ==
    /\ payload.text = "{{ not json }}"
    /\ Len(norm) >= 1
    /\ norm[1] = Returned("{{ not json }}")

\* the ways to put n files in a row
Orderings(n) ==
    {o \in [1..n -> 1..n] : \A i, j \in 1..n : i # j => o[i] # o[j]}

\* the contents of the files taken in the order o, a newline between them
ConcatenatedIn(files, o) ==
    Join([i \in 1..Len(files) |-> files[o[i]][2]], "\n")

\* the payload is a bundle, encoded once or twice, of the files payload.files
IsBundle == payload.shape \in {"single", "double"}

\* C4 (as stated): the normalized text of a bundle is the contents of its
\* files in the order the payload lists them, a newline between them.
C4_PayloadOrder ==
    IsBundle =>
        \A i \in 1..Len(norm) :
            norm[i] = Returned(ConcatenatedIn(payload.files,
                                              [k \in 1..Len(payload.files) |-> k]))

\* C4 (amended): the normalized text of a bundle is the contents of all its
\* files, each once, in some order, a single newline between consecutive
\* files; the order is that of the map's iteration.
C4_SomeOrder ==
    IsBundle =>
        \A i \in 1..Len(norm) :
            \E o \in Orderings(Len(payload.files)) :
                norm[i] = Returned(ConcatenatedIn(payload.files, o))

\* C4 witness: a double-encoded bundle of two files came back with the
\* second file first
C4_Witness ==
    /\ payload.shape = "double"
    /\ Len(payload.files) = 2
    /\ payload.files[1][2] # payload.files[2][2]
    /\ Len(norm) >= 1
    /\ norm[1] = Returned(payload.files[2][2] \o "\n" \o payload.files[1][2])

\* C5 (as stated): the calls of extract_true_source_code on one payload all
\* return the same text.
C5_SameTextEveryCall ==
    \A i, j \in 1..Len(norm) : norm[i] = norm[j]

---------------------------------------------------------------------------
(* Claims about analyze_address (Spec)                                     *)

\* request r has fetched a contract
Fetched(r) == req_info[r] # NoInfo

\* request r has fetched a contract whose source code is empty
Unverified(r) == Fetched(r) /\ req_info[r].source_code = ""

\* request r has returned a ScanResult built from a fetched contract
Assembled(r) == pc[r] = "done" /\ Fetched(r)

\* C7 (as stated): a request whose fetched source code is empty returns
\* score 50 and the single not-verified risk, and made no call of the
\* scanner.
C7_UnverifiedNotScanned ==
    \A r \in Reqs :
        (Assembled(r) /\ Unverified(r)) =>
            /\ req_result[r].score = 50
            /\ req_result[r].risks =
                   <<"The contract source code is not verified on Etherscan.">>
            /\ req_analysis[r] = NoAnalysis

\* C7 (amended): a request whose fetched source code is empty returns score
\* 50 and the single not-verified risk, whatever get_ai_summary returned;
\* the scanner is called, on the empty text and with verified = false, and
\* what it returns (no risks, score 100) reaches the returned ScanResult
\* nowhere.
C7_UnverifiedNeutral ==
    \A r \in Reqs :
        (Assembled(r) /\ Unverified(r)) =>
            /\ req_result[r].score = 50
            /\ req_result[r].risks =
                   <<"The contract source code is not verified on Etherscan.">>
            /\ req_analysis[r].source_code = ""
            /\ req_analysis[r].ret.risks = <<>>
            /\ req_analysis[r].ret.score = 100
            /\ ~req_analysis[r].ret.contract_traits.verified

\* C7 witness: an unverified contract, the narrative given by OpenAI
\* returned with score 50
C7_Witness ==
    \E r \in Reqs :
        /\ Assembled(r) /\ Unverified(r)
        /\ req_summary[r].ok
        /\ req_result[r].summary = req_summary[r].text
        /\ req_result[r].score = 50

\* C8 (as stated): an AnalysisResult is verified only when its source text
\* was not empty, and its good_distribution is true.
C8_VerifiedOnlyWithText ==
    \A r \in Reqs :
        req_analysis[r] # NoAnalysis =>
            /\ req_analysis[r].ret.contract_traits.verified
                   => req_analysis[r].source_code # ""
            /\ req_analysis[r].ret.contract_traits.good_distribution

\* C10 (as stated): two requests that fetched the same contract return the
\* same score and the same risks, whatever get_ai_summary returned to each.
C10_SameSourceSameScore ==
    \A r1, r2 \in Reqs :
        (Assembled(r1) /\ Assembled(r2) /\ req_info[r1] = req_info[r2]) =>
            /\ req_result[r1].score = req_result[r2].score
            /\ req_result[r1].risks = req_result[r2].risks

\* the address is no plausible Ethereum address
InvalidAddress(address) ==
    ~(Len(address) = 42 /\ SubSeq(address, 1, 2) = "0x")

\* the body of each reply of Etherscan read as an EtherscanApiResponse
ParsedReply ==
    [reply \in EtherscanReplies |->
        EtherscanApiResponse_from_slice(reply.response.body)]

\* the source fetch fails on this reply: no reply at all, a status outside
\* 2xx, a body that is no EtherscanApiResponse, or one whose status is not
\* "1" or whose result list is empty
FetchFails(reply) ==
    \/ ~reply.ok
    \/ reply.response.status \notin 200..299
    \/ ~ParsedReply[reply].ok
    \/ ParsedReply[reply].val.status # "1"
    \/ ParsedReply[reply].val.result = <<>>

\* request r was called with an invalid address
RejectedAddress(r) == pc[r] # "idle" /\ InvalidAddress(req_address[r])

\* request r received a reply of Etherscan on which the fetch fails
FailedFetch(r) == Len(req_replies[r]) >= 1 /\ FetchFails(req_replies[r][1])

\* what holds of a request that failed before analysis
C11_FailedState ==
    \A r \in Reqs :
        /\ RejectedAddress(r) =>
               /\ pc[r] = "done"
               /\ req_result[r].score = 0
               /\ req_result[r].risks = <<>>
               /\ req_outcalls[r] = <<>>
               /\ req_analysis[r] = NoAnalysis
        /\ FailedFetch(r) =>
               /\ pc[r] = "done"
               /\ req_result[r].score = 0
               /\ req_outcalls[r] = <<"etherscan">>
               /\ req_analysis[r] = NoAnalysis
               /\ req_summary[r] = NoSummary

\* a request that has returned makes no outcall and keeps its result
C11_ReturnedStep ==
    \A r \in Reqs :
        pc[r] = "done" =>
            /\ pc'[r] = "done"
            /\ req_outcalls'[r] = req_outcalls[r]
            /\ req_result'[r] = req_result[r]

\* C11: a request that fails before analysis (invalid address, no reply of
\* Etherscan, a status outside 2xx, an unparsable body, an API status other
\* than "1" or an empty result list) returns a ScanResult of score 0, has no
\* AnalysisResult, and makes no outcall once the failure is known, at no
\* later time either: OpenAI is never called; with an invalid address it
\* makes no outcall at all and its risks are empty.
C11_FailsWithoutAnalysis ==
    []C11_FailedState /\ [][C11_ReturnedStep]_vars

\* C11 witness: Etherscan answered 200 with an API status other than "1",
\* and the request returned score 0 after its one outcall
C11_Witness ==
    \E r \in Reqs :
        /\ FailedFetch(r)
        /\ req_replies[r][1].ok
        /\ req_replies[r][1].response.status = 200
        /\ ParsedReply[req_replies[r][1]].ok
        /\ ParsedReply[req_replies[r][1]].val.status = "0"
        /\ pc[r] = "done"
        /\ req_result[r].score = 0
        /\ req_outcalls[r] = <<"etherscan">>

\* request r has returned
Done(r) == pc[r] = "done"

\* two requests were given the same address and the same collaborator
\* responses
SameResponses(r1, r2) ==
    /\ req_address[r1] = req_address[r2]
    /\ req_replies[r1] = req_replies[r2]

\* C12: concurrent requests do not interfere: a request's ScanResult is the
\* one it returns when run alone with the same collaborator responses, so two
\* requests that were given the same address and the same responses of
\* Etherscan and OpenAI return the same ScanResult, however they interleave.
C12_ResultFromOwnResponses ==
    \A r1, r2 \in Reqs :
        (Done(r1) /\ Done(r2) /\ SameResponses(r1, r2)) =>
            req_result[r1] = req_result[r2]

\* the names of the findings of the call, as a set
FindingNames == {call.ret.risks[k].check_name : k \in 1..Len(call.ret.risks)}

\* C13: every text containing "x.call(data);" produces the findings
\* 'Low-level Call', 'Unchecked Call Return' and 'Reentrancy Vulnerability'
\* together, and the text "x.call(data);" alone produces exactly these three
\* findings and the score 100 - 5 - 10 - 30 = 55.
C13_CallTriggersThreeChecks ==
    Scanned =>
        /\ Contains(call.source_code, "x.call(data);") =>
               {"Low-level Call", "Unchecked Call Return",
                "Reentrancy Vulnerability"} \subseteq FindingNames
        /\ call.source_code = "x.call(data);" =>
               /\ FindingNames = {"Low-level Call", "Unchecked Call Return",
                                  "Reentrancy Vulnerability"}
               /\ Len(call.ret.risks) = 3
               /\ call.ret.score = 55

\* C13 witness: the text "x.call(data);" alone was scanned and scored 55
C13_Witness ==
    /\ Scanned
    /\ call.source_code = "x.call(data);"
    /\ Len(call.ret.risks) = 3
    /\ call.ret.score = 55

\* the bundle {A.sol: "contract A {}", B.sol: "selfdestruct(x);"} encoded as
\* JSON and wrapped in one more pair of braces
RoundTripPayload ==
    DoubleWrap(EncodeStandard(<< <<"A.sol", "contract A {}">>,
                                 <<"B.sol", "selfdestruct(x);">> >>))

\* request r fetched the round-trip payload as its source code
FetchedRoundTrip(r) ==
    Fetched(r) /\ req_info[r].source_code = RoundTripPayload

\* the scan of request r reports the check of this name
Reports(r, name) ==
    \E k \in 1..Len(req_analysis[r].ret.risks) :
        req_analysis[r].ret.risks[k].check_name = name

\* C14: the bundle {A.sol: "contract A {}", B.sol: "selfdestruct(x);"},
\* encoded as JSON and wrapped in one more pair of braces, normalizes to a
\* text that contains both file contents, and the scan of that text reports
\* 'Self-Destruct', in whichever order the files were concatenated.
C14_RoundTripFindsSelfDestruct ==
    \A r \in Reqs :
        FetchedRoundTrip(r) =>
            /\ req_analysis[r] # NoAnalysis
            /\ Contains(req_analysis[r].source_code, "contract A {}")
            /\ Contains(req_analysis[r].source_code, "selfdestruct(x);")
            /\ Reports(r, "Self-Destruct")

\* C14 witness: the payload was normalized with the file B.sol first, and
\* the scan of that text reported 'Self-Destruct'
C14_Witness ==
    \E r \in Reqs :
        /\ FetchedRoundTrip(r)
        /\ req_analysis[r] # NoAnalysis
        /\ req_analysis[r].source_code = "selfdestruct(x);\ncontract A {}"
        /\ Reports(r, "Self-Destruct")

\* request r returned a ScanResult for a contract with source code, and the
\* text its scanner was given matches no check of the catalogue
CleanVerified(r) ==
    /\ Assembled(r)
    /\ req_info[r].source_code # ""
    /\ req_analysis[r] # NoAnalysis
    /\ Matched(req_analysis[r].source_code) = {}

\* the summary create_summary_for_verified writes for a contract without
\* findings
CleanSummary(contract_name) ==
    "Analysis of '" \o contract_name \o "' complete. Found 0 critical, "
      \o "0 high, 0 medium, 0 low, and 0 informational risks. Final Score: 100"

Analysed(r) == req_analysis[r] # NoAnalysis

\* C16 (as stated): the findings and the score of the scan of a bundle do not
\* depend on the order in which its files were concatenated: two scans of the
\* same fetched bundle, whatever the order of the files in the text each was
\* given, return the same findings and the same score.
C16_ScanIgnoresFileOrder ==
    \A r1, r2 \in Reqs :
        (Analysed(r1) /\ Analysed(r2) /\ req_info[r1] = req_info[r2]) =>
            /\ req_analysis[r1].ret.score = req_analysis[r2].ret.score
            /\ req_analysis[r1].ret.risks = req_analysis[r2].ret.risks

===========================================================================
